---- MODULE Spec2Model ----
(***************************************************************************)
(* Model of the music player of chord-scribe-play: the playback            *)
(* coordinator (MusicApp), the song library (SongLibrary), the transport   *)
(* (AudioPlayer) and the lyrics view (LyricsViewer) with its two parsers   *)
(* and its active-line resolver.                                           *)
(*                                                                         *)
(* Representation.  A JavaScript string is a sequence of one-character     *)
(* strings.  A JavaScript number that holds a time is an integer count of  *)
(* milliseconds (Sec of them per second); NaN is the value NaN below and   *)
(* every comparison and sum treats it as JavaScript does.  Digits of a     *)
(* decimal fraction beyond the third are dropped; exponents, hexadecimal   *)
(* prefixes and "Infinity" are outside the inputs the model draws.         *)
(***************************************************************************)
EXTENDS Integers, Sequences, FiniteSets, TLC

\* ------------------------------------------------------------------ bounds
\* Songs the collection may grow to (the two seed songs plus uploads).
MaxSongs == 3
\* File reads that may be in flight at once.
MaxReads == 1
\* Inputs of content the user may make in one run: an audio file or a lyrics
\* file chosen, the edit buffer retyped, Save pressed.
MaxInputs == 2
\* Lines of the texts and lyric sequences the parsers and the resolver are
\* applied to on their own.
MaxLines == 3
\* Largest position, in seconds, the transport's audio element reaches.
MaxPosition == 1

\* ----------------------------------------------------------------- numbers
\* Milliseconds per second: LyricLine.time is "in seconds".
Sec == 1000
\* The JavaScript value NaN (parseInt / parseFloat of text with no number).
NaN == -999999999

IsNaN(x) == x = NaN
\* a >= b and a < b as JavaScript evaluates them: false when either is NaN.
Geq(a, b) == ~IsNaN(a) /\ ~IsNaN(b) /\ a >= b
Lt(a, b) == ~IsNaN(a) /\ ~IsNaN(b) /\ a < b
\* a + b and a * k as JavaScript evaluates them.
Plus(a, b) == IF IsNaN(a) \/ IsNaN(b) THEN NaN ELSE a + b
Times(a, k) == IF IsNaN(a) THEN NaN ELSE a * k
\* Math.floor(a / b) for b > 0.
FloorDiv(a, b) == IF IsNaN(a) THEN NaN ELSE a \div b
\* a % b for b > 0: the remainder has the sign of the dividend.
JsRem(a, b) == IF IsNaN(a) THEN NaN ELSE IF a >= 0 THEN a % b ELSE -((-a) % b)

\* ----------------------------------------------------------------- strings
Digits == {"0", "1", "2", "3", "4", "5", "6", "7", "8", "9"}
IsDigit(c) == c \in Digits
DigitVal(c) ==
  CASE c = "0" -> 0 [] c = "1" -> 1 [] c = "2" -> 2 [] c = "3" -> 3 [] c = "4" -> 4
    [] c = "5" -> 5 [] c = "6" -> 6 [] c = "7" -> 7 [] c = "8" -> 8 [] c = "9" -> 9
DigitChar(d) ==
  CASE d = 0 -> "0" [] d = 1 -> "1" [] d = 2 -> "2" [] d = 3 -> "3" [] d = 4 -> "4"
    [] d = 5 -> "5" [] d = 6 -> "6" [] d = 7 -> "7" [] d = 8 -> "8" [] d = 9 -> "9"
\* Characters String.prototype.trim removes.
WhiteSpace == {" ", "\t", "\r", "\n"}
\* Characters the regular expression's "." does not match.
LineTerminators == {"\n", "\r"}

\* s.split(sep) for a one-character separator.
RECURSIVE Split(_, _)
Split(s, sep) ==
  IF \A i \in 1..Len(s) : s[i] # sep
    THEN <<s>>
    ELSE LET p == CHOOSE i \in 1..Len(s) : s[i] = sep /\ \A j \in 1..(i - 1) : s[j] # sep
         IN  <<SubSeq(s, 1, p - 1)>> \o Split(SubSeq(s, p + 1, Len(s)), sep)

\* parts.join(sep) for a one-character separator.
RECURSIVE Join(_, _)
Join(parts, sep) ==
  IF parts = <<>> THEN <<>>
  ELSE IF Len(parts) = 1 THEN parts[1]
  ELSE parts[1] \o <<sep>> \o Join(Tail(parts), sep)

\* s.trimStart()
TrimStart(s) ==
  IF \A i \in 1..Len(s) : s[i] \in WhiteSpace
    THEN <<>>
    ELSE LET a == CHOOSE i \in 1..Len(s) :
                    s[i] \notin WhiteSpace /\ \A j \in 1..(i - 1) : s[j] \in WhiteSpace
         IN  SubSeq(s, a, Len(s))

\* s.trim()
Trim(s) ==
  LET t == TrimStart(s)
  IN  IF t = <<>>
        THEN <<>>
        ELSE LET b == CHOOSE i \in 1..Len(t) :
                        t[i] \notin WhiteSpace /\ \A j \in (i + 1)..Len(t) : t[j] \in WhiteSpace
             IN  SubSeq(t, 1, b)

\* s.endsWith(suffix)
EndsWith(s, suffix) ==
  /\ Len(s) >= Len(suffix)
  /\ SubSeq(s, Len(s) - Len(suffix) + 1, Len(s)) = suffix

\* s.padStart(width, '0')
RECURSIVE PadStart(_, _)
PadStart(s, width) == IF Len(s) >= width THEN s ELSE PadStart(<<"0">> \o s, width)

\* The number of leading decimal digits of s.
DigitsPrefixLen(s) ==
  CHOOSE n \in 0..Len(s) :
    /\ \A i \in 1..n : IsDigit(s[i])
    /\ n = Len(s) \/ ~IsDigit(s[n + 1])

\* The value of a sequence of decimal digits.
RECURSIVE DigitsValue(_)
DigitsValue(d) ==
  IF d = <<>> THEN 0
  ELSE 10 * DigitsValue(SubSeq(d, 1, Len(d) - 1)) + DigitVal(d[Len(d)])

\* The decimal digits of a natural number: Number.prototype.toString.
RECURSIVE NatToString(_)
NatToString(n) ==
  IF n < 10 THEN <<DigitChar(n)>> ELSE NatToString(n \div 10) \o <<DigitChar(n % 10)>>

\* String(n) for an integer or NaN, as a template literal interpolates it.
IntToString(n) ==
  IF IsNaN(n) THEN <<"N", "a", "N">>
  ELSE IF n < 0 THEN <<"-">> \o NatToString(-n)
  ELSE NatToString(n)

\* parseInt(s): leading white space, an optional sign, the longest run of
\* digits; NaN when there is none.  The result is a plain integer.
parseInt(s) ==
  LET t == TrimStart(s)
      signed == t # <<>> /\ t[1] \in {"-", "+"}
      u == IF signed THEN Tail(t) ELSE t
      n == DigitsPrefixLen(u)
      v == DigitsValue(SubSeq(u, 1, n))
  IN  IF n = 0 THEN NaN
      ELSE IF signed /\ t[1] = "-" THEN -v ELSE v

\* parseFloat(s): leading white space, an optional sign, the longest prefix
\* digits[.digits] or .digits; NaN when there is none.  The result is in
\* milliseconds.
parseFloat(s) ==
  LET t == TrimStart(s)
      signed == t # <<>> /\ t[1] \in {"-", "+"}
      u == IF signed THEN Tail(t) ELSE t
      n == DigitsPrefixLen(u)
      dot == Len(u) > n /\ u[n + 1] = "."
      f == IF dot THEN SubSeq(u, n + 2, Len(u)) ELSE <<>>
      m == DigitsPrefixLen(f)
      frac == SubSeq(SubSeq(f, 1, m) \o <<"0", "0", "0">>, 1, 3)
      v == DigitsValue(SubSeq(u, 1, n)) * Sec + DigitsValue(frac)
  IN  IF n = 0 /\ m = 0 THEN NaN
      ELSE IF signed /\ t[1] = "-" THEN -v ELSE v

\* x.toFixed(2) for a number of milliseconds: the nearest hundredth, the
\* larger one on a tie, with a sign for a negative x.
toFixed2(x) ==
  IF IsNaN(x) THEN <<"N", "a", "N">>
  ELSE LET a == IF x < 0 THEN -x ELSE x
           h == (a + 5) \div 10
           body == NatToString(h \div 100) \o <<".">> \o PadStart(NatToString(h % 100), 2)
       IN  IF x < 0 THEN <<"-">> \o body ELSE body

\* ------------------------------------------------------------- lyric lines
\* The optional lyrics field of a song: NoLyrics when it is undefined,
\* Present(lines) when it holds an array, whose lines are LinesOf(field).
NoLyrics == <<>>
Present(lines) == <<lines>>
LinesOf(field) == field[1]

LyricLine(time, text) == [time |-> time, text |-> text]

\* Array.prototype.findIndex with the active-line predicate: the zero-based
\* position of the first line whose window holds currentTime, or -1.
findIndexMutantStrict(lyrics, currentTime) ==
  LET hit(i) == /\ Lt(lyrics[i].time, currentTime)
                /\ (i = Len(lyrics) \/ Lt(currentTime, lyrics[i + 1].time))
  IN  IF \E i \in 1..Len(lyrics) : hit(i)
        THEN (CHOOSE i \in 1..Len(lyrics) : hit(i) /\ \A j \in 1..(i - 1) : ~hit(j)) - 1
        ELSE -1

findIndex(lyrics, currentTime) ==
  LET hit(i) == /\ Geq(currentTime, lyrics[i].time)
                /\ (i = Len(lyrics) \/ Lt(currentTime, lyrics[i + 1].time))
  IN  IF \E i \in 1..Len(lyrics) : hit(i)
        THEN (CHOOSE i \in 1..Len(lyrics) : hit(i) /\ \A j \in 1..(i - 1) : ~hit(j)) - 1
        ELSE -1

\* The active-line effect of LyricsViewer: it leaves currentLineIndex alone
\* when the song has no lyrics and otherwise stores findIndex's result.
ActiveLineEffect(lyrics, currentTime, old) ==
  IF lyrics = NoLyrics THEN old ELSE findIndex(LinesOf(lyrics), currentTime)

\* ------------------------------------------------------ the tagged parser
\* Whether /\[(\d{2}):(\d{2})\.(\d{2})\]/ matches line at position p.
TagAt(line, p) ==
  /\ p + 9 <= Len(line)
  /\ line[p] = "["
  /\ IsDigit(line[p + 1]) /\ IsDigit(line[p + 2])
  /\ line[p + 3] = ":"
  /\ IsDigit(line[p + 4]) /\ IsDigit(line[p + 5])
  /\ line[p + 6] = "."
  /\ IsDigit(line[p + 7]) /\ IsDigit(line[p + 8])
  /\ line[p + 9] = "]"

\* line.match(...): the expression is not anchored, so it matches at the
\* leftmost position that holds a tag.
LRCMatches(line) == \E p \in 1..Len(line) : TagAt(line, p)

LRCMatchPos(line) ==
  CHOOSE p \in 1..Len(line) : TagAt(line, p) /\ \A q \in 1..(p - 1) : ~TagAt(line, q)

\* match[4]: "(.*)" takes what follows the tag up to a line terminator.
LRCRest(line) ==
  LET r == SubSeq(line, LRCMatchPos(line) + 10, Len(line))
      n == CHOOSE k \in 0..Len(r) :
             /\ \A i \in 1..k : r[i] \notin LineTerminators
             /\ k = Len(r) \/ r[k + 1] \in LineTerminators
  IN  SubSeq(r, 1, n)

\* The entry pushed for a matching line.
LRCEntry(line) ==
  LET p == LRCMatchPos(line)
      minutes == parseInt(SubSeq(line, p + 1, p + 2))
      seconds == parseInt(SubSeq(line, p + 4, p + 5))
      centiseconds == parseInt(SubSeq(line, p + 7, p + 8))
  IN  LyricLine(minutes * 60 * Sec + seconds * Sec + centiseconds * (Sec \div 100),
                Trim(LRCRest(line)))

\* lines.forEach(...) of parseLRCFile: the entries of the matching lines.
RECURSIVE LRCEntries(_)
LRCEntries(lines) ==
  IF lines = <<>> THEN <<>>
  ELSE (IF LRCMatches(Head(lines)) THEN <<LRCEntry(Head(lines))>> ELSE <<>>)
         \o LRCEntries(Tail(lines))

\* Array.prototype.sort((a, b) => a.time - b.time): stable, ascending.
RECURSIVE SortByTimeMutantDescending(_)
SortByTimeMutantDescending(arr) ==
  IF arr = <<>> THEN <<>>
  ELSE LET e == arr[Len(arr)]
           s == SortByTimeMutantDescending(SubSeq(arr, 1, Len(arr) - 1))
           k == Cardinality({i \in 1..Len(s) : s[i].time >= e.time})
       IN  SubSeq(s, 1, k) \o <<e>> \o SubSeq(s, k + 1, Len(s))

RECURSIVE SortByTime(_)
SortByTime(arr) ==
  IF arr = <<>> THEN <<>>
  ELSE LET e == arr[Len(arr)]
           s == SortByTime(SubSeq(arr, 1, Len(arr) - 1))
           k == Cardinality({i \in 1..Len(s) : s[i].time <= e.time})
       IN  SubSeq(s, 1, k) \o <<e>> \o SubSeq(s, k + 1, Len(s))

parseLRCFileMutantUnsorted(content) == LRCEntries(Split(content, "\n"))

parseLRCFile(content) == SortByTime(LRCEntries(Split(content, "\n")))

\* ---------------------------------------------------- the freeform parser
\* The time of a "time|text" line (handleManualEdit, lines 99-105).
ManualTime(timeStr) ==
  IF \E i \in 1..Len(timeStr) : timeStr[i] = ":"
    THEN LET p == Split(timeStr, ":")
         IN  Plus(Times(parseInt(p[1]), 60 * Sec), parseFloat(p[2]))
    ELSE parseFloat(timeStr)

\* The entry pushed for the retained line at zero-based position index.
ManualEntry(line, index) ==
  LET parts == Split(line, "|")
  IN  IF Len(parts) = 2
        THEN LyricLine(ManualTime(Trim(parts[1])), Trim(parts[2]))
        ELSE LyricLine(index * 3 * Sec, Trim(line))

\* lyricsText.split('\n').filter(line => line.trim())
RetainedLines(lyricsText) ==
  SelectSeq(Split(lyricsText, "\n"), LAMBDA line : Trim(line) # <<>>)

ParseManualMutantUntimedIndex(lyricsText) ==
  LET lines == RetainedLines(lyricsText)
      untimed(i) == Cardinality({j \in 1..(i - 1) : Len(Split(lines[j], "|")) # 2})
  IN  [i \in 1..Len(lines) |-> ManualEntry(lines[i], untimed(i))]

\* The parse of handleManualEdit (lines 89-115).
ParseManual(lyricsText) ==
  LET lines == RetainedLines(lyricsText)
  IN  [i \in 1..Len(lines) |-> ManualEntry(lines[i], i - 1)]

\* ------------------------------------------------------- the serialization
\* `${Math.floor(l.time / 60)}:${(l.time % 60).toFixed(2).padStart(5, '0')}|${l.text}`
SerializeLine(l) ==
  IntToString(FloorDiv(l.time, 60 * Sec)) \o <<":">>
    \o PadStart(toFixed2(JsRem(l.time, 60 * Sec)), 5) \o <<"|">> \o l.text

\* lyrics?.map(...).join('\n') || ''
Serialize(lyrics) ==
  IF lyrics = NoLyrics THEN <<>>
  ELSE Join([i \in 1..Len(LinesOf(lyrics)) |-> SerializeLine(LinesOf(lyrics)[i])], "\n")

\* ---------------------------------------------------------------- the state
VARIABLES
  songs,             \* MusicApp: the song collection
  currentSongIndex,  \* MusicApp: the selected song, zero-based
  appIsPlaying,      \* MusicApp: isPlaying
  appTime,           \* MusicApp: currentTime, the value passed to LyricsViewer
  appAudioTime,      \* the position of MusicApp's hidden <audio> element
  editMode,          \* LyricsViewer: editMode
  lyricsText,        \* LyricsViewer: lyricsText, the edit buffer
  currentLineIndex,  \* LyricsViewer: currentLineIndex
  pendingReads,      \* FileReader reads in flight, each with what its onload captured
  toast,             \* the last notice shown
  playerIsPlaying,   \* AudioPlayer: isPlaying
  playerTime,        \* AudioPlayer: currentTime, the value on the seek bar
  playerAudioTime,   \* the position of AudioPlayer's <audio> element
  endedSongCount,    \* songs.length as captured by the registered 'ended' listener
  viewBeforeEdit,    \* history: the view state when Editing was entered
  editDisturbed,     \* history: a selection change or read completion happened in Editing
  lastEvent,         \* history: "Cancel" right after the Cancel button, else "other"
  inputsUsed         \* history: files chosen, buffers typed and saves so far

vars ==
  <<songs, currentSongIndex, appIsPlaying, appTime, appAudioTime, editMode, lyricsText,
    currentLineIndex, pendingReads, toast, playerIsPlaying, playerTime, playerAudioTime,
    endedSongCount, viewBeforeEdit, editDisturbed, lastEvent, inputsUsed>>

appVars == <<songs, currentSongIndex, appIsPlaying, appTime, appAudioTime>>
viewerVars == <<editMode, lyricsText, currentLineIndex, pendingReads, toast>>
playerVars == <<playerIsPlaying, playerTime, playerAudioTime, endedSongCount>>
historyVars == <<viewBeforeEdit, editDisturbed, lastEvent, inputsUsed>>

\* The history of an event that is neither the entry to nor the exit from
\* Editing: the record of an edit session is kept while it lasts and for the
\* one state after its Cancel.
NoteEvent(disturbs) ==
  /\ lastEvent' = "other"
  /\ viewBeforeEdit' = IF editMode THEN viewBeforeEdit ELSE "none"
  /\ editDisturbed' = (editMode /\ (disturbs \/ editDisturbed))
  /\ UNCHANGED inputsUsed

\* sampleSongs of MusicApp.
sampleSongs ==
  << [id |-> "1", title |-> "Sample Song 1", artist |-> "Demo Artist",
      src |-> "/audio/sample1.mp3",
      lyrics |-> Present(<<
        LyricLine(0 * Sec, <<"W","e","l","c","o","m","e"," ","t","o"," ","o","u","r"," ","m","u","s","i","c"," ","p","l","a","y","e","r">>),
        LyricLine(3 * Sec, <<"T","h","i","s"," ","i","s"," ","a"," ","s","y","n","c","h","r","o","n","i","z","e","d"," ","l","y","r","i","c"," ","l","i","n","e">>),
        LyricLine(6 * Sec, <<"T","h","e"," ","l","y","r","i","c","s"," ","f","o","l","l","o","w"," ","t","h","e"," ","a","u","d","i","o"," ","t","i","m","i","n","g">>),
        LyricLine(9 * Sec, <<"J","u","s","t"," ","l","i","k","e"," ","S","p","o","t","i","f","y","!">>),
        LyricLine(12 * Sec, <<"U","p","l","o","a","d"," ","y","o","u","r"," ","o","w","n"," ","s","o","n","g","s"," ","a","n","d"," ","l","y","r","i","c","s">>) >>)],
     [id |-> "2", title |-> "Another Song", artist |-> "Another Artist",
      src |-> "/audio/sample2.mp3",
      lyrics |-> Present(<<
        LyricLine(0 * Sec, <<"T","h","i","s"," ","i","s"," ","a","n","o","t","h","e","r"," ","s","a","m","p","l","e"," ","s","o","n","g">>),
        LyricLine(4 * Sec, <<"W","i","t","h"," ","d","i","f","f","e","r","e","n","t"," ","l","y","r","i","c","s"," ","a","n","d"," ","t","i","m","i","n","g">>),
        LyricLine(8 * Sec, <<"Y","o","u"," ","c","a","n"," ","a","d","d"," ","y","o","u","r"," ","o","w","n"," ","m","u","s","i","c"," ","f","i","l","e","s">>),
        LyricLine(12 * Sec, <<"A","n","d"," ","c","r","e","a","t","e"," ","c","u","s","t","o","m"," ","l","y","r","i","c","s">>) >>)] >>

\* const currentSong = songs[currentSongIndex], and its lyrics prop
\* (currentSong?.lyrics), in a given collection at a given index.
LyricsAt(ss, index) == IF index + 1 \in 1..Len(ss) THEN ss[index + 1].lyrics ELSE NoLyrics
CurrentLyrics == LyricsAt(songs, currentSongIndex)

\* The render branch of LyricsViewer (lines 123, 171, 205).
ViewOf(edit, lyrics) ==
  IF edit THEN "Editing" ELSE IF lyrics = NoLyrics THEN "Empty" ELSE "Viewing"
View == ViewOf(editMode, CurrentLyrics)

\* ------------------------------------------------------- inputs of the model
\* The files offered to the lyrics file input: name and text content.
LrcFiles ==
  { [name |-> <<"s","o","n","g",".","l","r","c">>, content |-> <<"[","0","0",":","0","5",".","0","0","]","l","a","t","e","|","r","\n","[","0","0",":","0","2",".","0","0","]","e","a","r","l","y">>],
    [name |-> <<"b","l","a","n","k",".","l","r","c">>, content |-> <<"n","o"," ","t","a","g","s"," ","h","e","r","e">>],
    [name |-> <<"s","o","n","g",".","t","x","t">>, content |-> <<"[","0","0",":","0","1",".","0","0","]","t","e","x","t">>] }

\* The texts the user may type into the edit buffer.
TypedTexts ==
  { <<"5","|","l","a","t","e","\n","0","|","e","a","r","l","y">>,
    <<"p","l","a","i","n"," ","l","i","n","e">> }

\* The files offered to the audio file input: whether file.type starts with
\* 'audio/', and file.name without its extension.
AudioFiles ==
  { [audio |-> TRUE, stem |-> "track"],
    [audio |-> FALSE, stem |-> "notes"] }

\* Date.now().toString() of successive uploads.
UploadId(n) == CASE n = 2 -> "1700000000002" [] n = 3 -> "1700000000003"
                 [] OTHER -> "1700000000004"

\* ------------------------------------------------------------------- Init
\* The state after construction (the useState initial values and the first
\* run of the effects), for a given collection, position of the hidden
\* element, edit mode, edit buffer and set of reads in flight.
InitWith(ss, audioTime, edit, text, reads) ==
  /\ songs = ss
  /\ currentSongIndex = 0
  /\ appIsPlaying = FALSE
  /\ appTime = 0
  /\ appAudioTime = audioTime
  /\ editMode = edit
  /\ lyricsText = text
  /\ currentLineIndex = ActiveLineEffect(LyricsAt(ss, 0), 0, -1)
  /\ pendingReads = reads
  /\ toast = "none"
  /\ playerIsPlaying = FALSE
  /\ playerTime = 0
  /\ playerAudioTime = 0
  /\ endedSongCount = Len(ss)
  /\ viewBeforeEdit = IF edit THEN ViewOf(FALSE, LyricsAt(ss, 0)) ELSE "none"
  /\ editDisturbed = FALSE
  /\ lastEvent = "other"
  /\ inputsUsed = 0

Init == InitWith(sampleSongs, 0, FALSE, <<>>, {})

\* ---------------------------------------------------------------- MusicApp
\* handleSongChange(index), with what the change of currentSongIndex causes:
\* LyricsViewer's active-line effect, AudioPlayer's listener effect (it
\* registers the handleNext of this render) and the reload of AudioPlayer's
\* <audio> element for the new src, which puts its position back to 0.
handleSongChange(index) ==
  /\ currentSongIndex' = index
  /\ appTime' = 0
  /\ currentLineIndex' = ActiveLineEffect(LyricsAt(songs, index), 0, currentLineIndex)
  /\ endedSongCount' = Len(songs)
  /\ playerAudioTime' = 0
  /\ NoteEvent(TRUE)
  /\ UNCHANGED <<songs, appIsPlaying, appAudioTime, editMode, lyricsText, pendingReads,
                 toast, playerIsPlaying>>

\* handleSongAdd(newSong)
handleSongAdd(newSong) ==
  /\ songs' = Append(songs, newSong)
  /\ currentSongIndex' = IF Len(songs) = 0 THEN 0 ELSE currentSongIndex
  /\ UNCHANGED <<appIsPlaying, appTime, appAudioTime>>

\* handlePlayPause()
handlePlayPause ==
  /\ appIsPlaying' = ~appIsPlaying
  /\ UNCHANGED <<songs, currentSongIndex, appTime, appAudioTime>>

\* handleLyricsUpdate(lyrics) of the render in which currentSongIndex was
\* index: the collection with that song's lyrics replaced.
handleLyricsUpdate(index, lyrics) ==
  [i \in 1..Len(songs) |->
     IF i - 1 = index THEN [songs[i] EXCEPT !.lyrics = Present(lyrics)] ELSE songs[i]]

\* updateTime of MusicApp (and the element's onTimeUpdate): a 'timeupdate' of
\* the hidden <audio> element stores that element's position.
AppTimeUpdate ==
  /\ appTime' = appAudioTime
  /\ currentLineIndex' = ActiveLineEffect(CurrentLyrics, appAudioTime, currentLineIndex)
  /\ UNCHANGED <<songs, currentSongIndex, appIsPlaying, appAudioTime, editMode, lyricsText,
                 pendingReads, toast>>
  /\ UNCHANGED playerVars
  /\ NoteEvent(FALSE)

\* ------------------------------------------------------------- SongLibrary
\* handleSongClick(index) on the selected song.
LibraryPlayPause ==
  /\ handlePlayPause
  /\ UNCHANGED viewerVars
  /\ UNCHANGED playerVars
  /\ NoteEvent(FALSE)

\* handleSongClick(index) on another song.
LibrarySelect(index) ==
  /\ index \in 0..(Len(songs) - 1)
  /\ index # currentSongIndex
  /\ handleSongChange(index)
  /\ UNCHANGED playerTime

\* ------------------------------------------------------------- AudioPlayer
\* togglePlayPause(), with the play/pause effect on the element.
togglePlayPause ==
  /\ playerIsPlaying' = ~playerIsPlaying
  /\ UNCHANGED <<playerTime, playerAudioTime, endedSongCount>>
  /\ UNCHANGED appVars
  /\ UNCHANGED viewerVars
  /\ NoteEvent(FALSE)

\* handlePrevious()
handlePrevious ==
  /\ currentSongIndex > 0
  /\ handleSongChange(currentSongIndex - 1)
  /\ playerTime' = 0

\* handleNext() of the current render (the Next button).
handleNext ==
  /\ currentSongIndex < Len(songs) - 1
  /\ handleSongChange(currentSongIndex + 1)
  /\ playerTime' = 0

\* The 'ended' event: the handleNext registered by the listener effect, whose
\* songs is the collection of the render that registered it.
EndedMutantNoBound ==
  /\ playerIsPlaying
  /\ handleSongChange(currentSongIndex + 1)
  /\ playerTime' = 0

Ended ==
  /\ playerIsPlaying
  /\ currentSongIndex < endedSongCount - 1
  /\ handleSongChange(currentSongIndex + 1)
  /\ playerTime' = 0

\* The playing <audio> element of AudioPlayer advances by a second.
AudioAdvance ==
  /\ playerIsPlaying
  /\ playerAudioTime < MaxPosition * Sec
  /\ playerAudioTime' = playerAudioTime + Sec
  /\ UNCHANGED <<playerIsPlaying, playerTime, endedSongCount>>
  /\ UNCHANGED appVars
  /\ UNCHANGED viewerVars
  /\ NoteEvent(FALSE)

\* updateTime of AudioPlayer: a 'timeupdate' of its <audio> element.
PlayerTimeUpdate ==
  /\ playerTime' = playerAudioTime
  /\ UNCHANGED <<playerIsPlaying, playerAudioTime, endedSongCount>>
  /\ UNCHANGED appVars
  /\ UNCHANGED viewerVars
  /\ NoteEvent(FALSE)

\* handleSeek([value]): the slider moves in steps of one second.
handleSeek(value) ==
  /\ value \in 0..MaxPosition
  /\ playerAudioTime' = value * Sec
  /\ playerTime' = value * Sec
  /\ UNCHANGED <<playerIsPlaying, endedSongCount>>
  /\ UNCHANGED appVars
  /\ UNCHANGED viewerVars
  /\ NoteEvent(FALSE)

\* handleFileUpload(event) with an audio file: the new song has no lyrics.
handleFileUpload(file) ==
  /\ file \in AudioFiles
  /\ file.audio
  /\ Len(songs) < MaxSongs
  /\ inputsUsed < MaxInputs
  /\ handleSongAdd([id |-> UploadId(Len(songs)), title |-> file.stem,
                    artist |-> "Unknown Artist", src |-> "blob:" \o file.stem,
                    lyrics |-> NoLyrics])
  /\ toast' = "Added \"" \o file.stem \o "\" to your library"
  /\ UNCHANGED <<editMode, lyricsText, currentLineIndex, pendingReads>>
  /\ UNCHANGED playerVars
  /\ lastEvent' = "other"
  /\ viewBeforeEdit' = IF editMode THEN viewBeforeEdit ELSE "none"
  /\ editDisturbed' = (editMode /\ editDisturbed)
  /\ inputsUsed' = inputsUsed + 1

\* ------------------------------------------------------------ LyricsViewer
\* No file chosen in the dialog: event.target.files?.[0] is undefined.
NoFile == [name |-> <<>>, content |-> <<>>]

\* handleLRCUpload(event): the file input exists in the Empty and Viewing
\* branches only.  An accepted file starts a read whose onload holds the
\* onLyricsUpdate of this render, that is, this render's currentSongIndex.
handleLRCUploadMutantAnyFile(file) ==
  /\ ~editMode
  /\ file \in LrcFiles \cup {NoFile}
  /\ inputsUsed < MaxInputs
  /\ inputsUsed' = inputsUsed + 1
  /\ Cardinality(pendingReads) < MaxReads
  /\ pendingReads' =
       pendingReads \cup {[content |-> file.content, index |-> currentSongIndex]}
  /\ toast' = toast
  /\ lastEvent' = "other"
  /\ viewBeforeEdit' = "none"
  /\ editDisturbed' = FALSE
  /\ UNCHANGED <<editMode, lyricsText, currentLineIndex>>
  /\ UNCHANGED appVars
  /\ UNCHANGED playerVars

handleLRCUpload(file) ==
  /\ ~editMode
  /\ file \in LrcFiles \cup {NoFile}
  /\ inputsUsed < MaxInputs
  /\ inputsUsed' = inputsUsed + 1
  /\ IF file # NoFile /\ EndsWith(file.name, <<".","l","r","c">>)
       THEN /\ Cardinality(pendingReads) < MaxReads
            /\ pendingReads' =
                 pendingReads \cup {[content |-> file.content, index |-> currentSongIndex]}
            /\ toast' = toast
       ELSE /\ toast' = "Please upload a valid .lrc file"
            /\ pendingReads' = pendingReads
  /\ lastEvent' = "other"
  /\ viewBeforeEdit' = "none"
  /\ editDisturbed' = FALSE
  /\ UNCHANGED <<editMode, lyricsText, currentLineIndex>>
  /\ UNCHANGED appVars
  /\ UNCHANGED playerVars

\* reader.onload of the read r: parse, hand the result to the captured
\* onLyricsUpdate, show the notice; then the active-line effect.
ReadComplete(r) ==
  /\ r \in pendingReads
  /\ pendingReads' = pendingReads \ {r}
  /\ songs' = handleLyricsUpdate(r.index, parseLRCFile(r.content))
  /\ toast' = "Lyrics uploaded successfully!"
  /\ currentLineIndex' =
       ActiveLineEffect(LyricsAt(songs', currentSongIndex), appTime, currentLineIndex)
  /\ NoteEvent(TRUE)
  /\ UNCHANGED <<currentSongIndex, appIsPlaying, appTime, appAudioTime, editMode, lyricsText>>
  /\ UNCHANGED playerVars

\* handleManualEdit(): in Editing it parses the buffer and replaces the
\* selected song's lyrics; in both cases it flips editMode.
handleManualEditMutantFirstSong ==
  /\ IF editMode
       THEN /\ songs' = handleLyricsUpdate(0, ParseManual(lyricsText))
            /\ toast' = "Lyrics updated!"
       ELSE UNCHANGED <<songs, toast>>
  /\ editMode' = ~editMode
  /\ currentLineIndex' =
       ActiveLineEffect(LyricsAt(songs', currentSongIndex), appTime, currentLineIndex)
  /\ viewBeforeEdit' = IF editMode THEN "none" ELSE View
  /\ editDisturbed' = FALSE
  /\ lastEvent' = "other"
  /\ inputsUsed' = IF editMode THEN inputsUsed + 1 ELSE inputsUsed
  /\ UNCHANGED <<currentSongIndex, appIsPlaying, appTime, appAudioTime, lyricsText,
                 pendingReads>>
  /\ UNCHANGED playerVars

handleManualEdit ==
  /\ IF editMode
       THEN /\ songs' = handleLyricsUpdate(currentSongIndex, ParseManual(lyricsText))
            /\ toast' = "Lyrics updated!"
       ELSE UNCHANGED <<songs, toast>>
  /\ editMode' = ~editMode
  /\ currentLineIndex' =
       ActiveLineEffect(LyricsAt(songs', currentSongIndex), appTime, currentLineIndex)
  /\ viewBeforeEdit' = IF editMode THEN "none" ELSE View
  /\ editDisturbed' = FALSE
  /\ lastEvent' = "other"
  /\ inputsUsed' = IF editMode THEN inputsUsed + 1 ELSE inputsUsed
  /\ UNCHANGED <<currentSongIndex, appIsPlaying, appTime, appAudioTime, lyricsText,
                 pendingReads>>
  /\ UNCHANGED playerVars

\* The Add Lyrics button of the Empty branch.
AddLyrics ==
  /\ View = "Empty"
  /\ handleManualEdit

\* The Save button of the Editing branch.
Save ==
  /\ View = "Editing"
  /\ inputsUsed < MaxInputs
  /\ handleManualEdit

\* The Edit button of the Viewing branch: serialize, then enter Editing.
Edit ==
  /\ View = "Viewing"
  /\ lyricsText' = Serialize(CurrentLyrics)
  /\ editMode' = TRUE
  /\ viewBeforeEdit' = View
  /\ editDisturbed' = FALSE
  /\ lastEvent' = "other"
  /\ UNCHANGED <<currentLineIndex, pendingReads, toast, inputsUsed>>
  /\ UNCHANGED appVars
  /\ UNCHANGED playerVars

\* The Cancel button of the Editing branch: setEditMode(false).
CancelMutantSaves ==
  /\ View = "Editing"
  /\ editMode' = FALSE
  /\ songs' = handleLyricsUpdate(currentSongIndex, ParseManual(lyricsText))
  /\ lastEvent' = "Cancel"
  /\ UNCHANGED <<currentSongIndex, appIsPlaying, appTime, appAudioTime>>
  /\ UNCHANGED <<lyricsText, currentLineIndex, pendingReads, toast>>
  /\ UNCHANGED <<viewBeforeEdit, editDisturbed, inputsUsed>>
  /\ UNCHANGED playerVars

Cancel ==
  /\ View = "Editing"
  /\ editMode' = FALSE
  /\ lastEvent' = "Cancel"
  /\ UNCHANGED <<lyricsText, currentLineIndex, pendingReads, toast>>
  /\ UNCHANGED <<viewBeforeEdit, editDisturbed, inputsUsed>>
  /\ UNCHANGED appVars
  /\ UNCHANGED playerVars

\* onChange of the textarea: setLyricsText(e.target.value).
SetLyricsText(value) ==
  /\ View = "Editing"
  /\ value \in TypedTexts
  /\ inputsUsed < MaxInputs
  /\ inputsUsed' = inputsUsed + 1
  /\ lyricsText' = value
  /\ lastEvent' = "other"
  /\ UNCHANGED <<viewBeforeEdit, editDisturbed>>
  /\ UNCHANGED <<editMode, currentLineIndex, pendingReads, toast>>
  /\ UNCHANGED appVars
  /\ UNCHANGED playerVars

\* ------------------------------------------------------ the specification
Next ==
  \/ \E index \in 0..(MaxSongs - 1) : LibrarySelect(index)
  \/ LibraryPlayPause
  \/ AppTimeUpdate
  \/ togglePlayPause
  \/ handlePrevious
  \/ handleNext
  \/ Ended
  \/ AudioAdvance
  \/ PlayerTimeUpdate
  \/ \E value \in 0..MaxPosition : handleSeek(value)
  \/ \E file \in AudioFiles : handleFileUpload(file)
  \/ \E file \in LrcFiles \cup {NoFile} : handleLRCUpload(file)
  \/ \E r \in pendingReads : ReadComplete(r)
  \/ AddLyrics
  \/ Edit
  \/ \E value \in TypedTexts : SetLyricsText(value)
  \/ Save
  \/ Cancel

Spec == Init /\ [][Next]_vars

\* The lyrics view with the coordinator's selection and collection: the
\* transport's own state (play/pause, seek bar, element position) is left at
\* rest, since no handler of the view or the coordinator reads it.
NextLyrics ==
  \/ \E index \in 0..(MaxSongs - 1) : LibrarySelect(index)
  \/ AppTimeUpdate
  \/ handlePrevious
  \/ handleNext
  \/ \E file \in AudioFiles : handleFileUpload(file)
  \/ \E file \in LrcFiles \cup {NoFile} : handleLRCUpload(file)
  \/ \E r \in pendingReads : ReadComplete(r)
  \/ AddLyrics
  \/ Edit
  \/ \E value \in TypedTexts : SetLyricsText(value)
  \/ Save
  \/ Cancel

SpecLyrics == Init /\ [][NextLyrics]_vars

\* ------------------------------------------- the resolver taken on its own
\* Lyric sequences in non-decreasing time order, of at most MaxLines lines.
ResolverLineTimes == {0 * Sec, 3 * Sec, 6 * Sec}
ResolverLyrics ==
  LET all == UNION {[1..n -> ResolverLineTimes] : n \in 0..MaxLines}
      ordered == {ts \in all : \A i \in 1..(Len(ts) - 1) : ts[i] <= ts[i + 1]}
  IN  {[i \in 1..Len(ts) |-> LyricLine(ts[i], <<"x">>)] : ts \in ordered}

\* Playback times delivered to the resolver.
ResolverTimes ==
  {-1 * Sec, 0, 2999, 3 * Sec, 4 * Sec, 5999, 6 * Sec, 7 * Sec, 1000 * Sec}

InitResolver ==
  \E lines \in ResolverLyrics, t \in ResolverTimes :
    InitWith(<<[sampleSongs[1] EXCEPT !.lyrics = Present(lines)]>>, t, FALSE, <<>>, {})

NextResolver == AppTimeUpdate

SpecResolver == InitResolver /\ [][NextResolver]_vars

\* -------------------------------------- the tagged parser taken on its own
LRCLineSamples ==
  { <<"[","0","0",":","0","5",".","0","0","]","l","a","t","e">>,
    <<"[","0","0",":","0","2",".","5","0","]"," ","e","a","r","l","y"," ","\r">>,
    <<"[","0","1",":","7","5",".","1","0","]">>,
    <<"x","[","0","0",":","0","1",".","0","0","]","p","r","e">>,
    <<"[","0",":","0","1",".","0","0","]","b","a","d">>,
    <<"p","l","a","i","n"," ","t","e","x","t">>,
    <<>>,
    <<"[","0","0",":","0","2",".","5","0","]","t","i","e">>,
    <<"[","0","0",":","0","3",".","0","0","]","a","\r","b">> }

\* The file contents read: at most MaxLines sample lines joined by "\n".
LRCContents ==
  {Join(ls, "\n") : ls \in UNION {[1..n -> LRCLineSamples] : n \in 0..MaxLines}}

InitLRC ==
  \E content \in LRCContents :
    InitWith(sampleSongs, 0, FALSE, <<>>, {[content |-> content, index |-> 0]})

NextLRC == \E r \in pendingReads : ReadComplete(r)

SpecLRC == InitLRC /\ [][NextLRC]_vars

\* ------------------------------------ the freeform parser taken on its own
ManualLineSamples ==
  { <<"1",":","2","3","|","h","e","l","l","o">>,
    <<"9","0","|","h","e","l","l","o">>,
    <<"j","u","s","t"," ","t","e","x","t">>,
    <<>>,
    <<" ","\t">>,
    <<"a","|","b","|","c">>,
    <<" ","2",".","5"," ","|"," ","p","a","d","d","e","d"," ">>,
    <<"a","b","c","|","x">>,
    <<"1","2",":","0","3",".","2","5","|","x">> }

\* The edit buffers saved: at most MaxLines sample lines joined by "\n".
ManualTexts ==
  {Join(ls, "\n") : ls \in UNION {[1..n -> ManualLineSamples] : n \in 0..MaxLines}}

InitFreeform ==
  \E text \in ManualTexts : InitWith(sampleSongs, 0, TRUE, text, {})

NextFreeform == Save

SpecFreeform == InitFreeform /\ [][NextFreeform]_vars

\* ------------------------------------------- selection and the transport
\* The coordinator's selection and collection with the library and the
\* transport: the lyrics view is left at rest, since no handler of the
\* library or the transport reads its state.
NextTransport ==
  \/ \E index \in 0..(MaxSongs - 1) : LibrarySelect(index)
  \/ LibraryPlayPause
  \/ togglePlayPause
  \/ handlePrevious
  \/ handleNext
  \/ Ended
  \/ AudioAdvance
  \/ PlayerTimeUpdate
  \/ \E value \in 0..MaxPosition : handleSeek(value)
  \/ \E file \in AudioFiles : handleFileUpload(file)

SpecTransport == Init /\ [][NextTransport]_vars

\* ==================================================================== claims
\* Helpers of the statements below.
LineTimes(lines) == [i \in 1..Len(lines) |-> lines[i].time]
Ascending(lines) == \A i \in 1..(Len(lines) - 1) : lines[i].time <= lines[i + 1].time
CountIn(lines, e) == Cardinality({i \in 1..Len(lines) : lines[i] = e})
\* The same entries, each as often, in whatever order.
SameEntries(a, b) ==
  /\ Len(a) = Len(b)
  /\ \A i \in 1..Len(b) : CountIn(a, b[i]) = CountIn(b, b[i])
TwoDigits(line, p) == 10 * DigitVal(line[p]) + DigitVal(line[p + 1])

\* C1: for lyrics in non-decreasing time order the resolver's result is the
\* one index i with lyrics[i].time <= currentTime and (i last or currentTime <
\* lyrics[i+1].time), and none (-1) when there is no such index; for times
\* [0,3,6] it is 1 at 4, none at -1, 2 at 6 and 2 at 1000.
C1_ActiveLineIsTheWindow ==
  LET lines == LinesOf(CurrentLyrics)
      inWindow(i) == /\ lines[i].time <= appTime
                     /\ (i = Len(lines) \/ appTime < lines[i + 1].time)
      windows == {i \in 1..Len(lines) : inWindow(i)}
  IN  /\ windows = {} => currentLineIndex = -1
      /\ windows # {} => windows = {currentLineIndex + 1}
      /\ LineTimes(lines) = <<0, 3 * Sec, 6 * Sec>> =>
           /\ appTime = 4 * Sec => currentLineIndex = 1
           /\ appTime = -1 * Sec => currentLineIndex = -1
           /\ appTime = 6 * Sec => currentLineIndex = 2
           /\ appTime = 1000 * Sec => currentLineIndex = 2

C1_Witness ==
  /\ LineTimes(LinesOf(CurrentLyrics)) = <<0, 3 * Sec, 6 * Sec>>
  /\ appAudioTime = 4 * Sec
  /\ appTime = 4 * Sec
  /\ currentLineIndex = 1

\* C2: whenever the selected song has no lyric sequence, or currentTime is
\* before the time of the first entry of its sequence, the active-line index
\* held by the lyrics view is none (-1).
C2_NoneWhenAbsentOrEarly ==
  (\/ CurrentLyrics = NoLyrics
   \/ /\ CurrentLyrics # NoLyrics
      /\ LinesOf(CurrentLyrics) # <<>>
      /\ Lt(appTime, LinesOf(CurrentLyrics)[1].time))
    => currentLineIndex = -1

\* C3: when the audio element the transport drives delivers a time-advanced
\* event with time t, the currentTime passed to the lyrics viewer becomes t.
C3_ViewerFollowsPlayingAudio ==
  [][PlayerTimeUpdate => appTime' = playerAudioTime]_vars

\* A line that is a leading tag followed by text, and its entry.
C4_LeadingTag(line) ==
  /\ Len(line) >= 10
  /\ line[1] = "[" /\ line[4] = ":" /\ line[7] = "." /\ line[10] = "]"
  /\ \A p \in {2, 3, 5, 6, 8, 9} : IsDigit(line[p])
C4_LeadingEntry(line) ==
  LyricLine((TwoDigits(line, 2) * 60 + TwoDigits(line, 5)) * Sec + TwoDigits(line, 8) * 10,
            Trim(SubSeq(line, 11, Len(line))))
C4_LeadingExpected(content) ==
  LET tagged == SelectSeq(Split(content, "\n"), C4_LeadingTag)
  IN  [i \in 1..Len(tagged) |-> C4_LeadingEntry(tagged[i])]
\* C4 as stated: the parse holds exactly one entry for each line that is a
\* leading [mm:ss.xx] tag followed by text, with time mm*60 + ss + xx/100 and
\* the trailing text trimmed; every other line is skipped; the result is in
\* ascending time order.
C4_Original ==
  [][\A r \in pendingReads :
       ReadComplete(r) =>
         LET out == LinesOf(songs'[r.index + 1].lyrics)
         IN  SameEntries(out, C4_LeadingExpected(r.content)) /\ Ascending(out)]_vars

\* A line that holds a tag at position p, and the entry of its leftmost tag.
C4_TagAt(line, p) ==
  /\ p >= 1 /\ p + 9 <= Len(line)
  /\ line[p] = "[" /\ line[p + 3] = ":" /\ line[p + 6] = "." /\ line[p + 9] = "]"
  /\ \A q \in {p + 1, p + 2, p + 4, p + 5, p + 7, p + 8} : IsDigit(line[q])
C4_HasTag(line) == \E p \in 1..Len(line) : C4_TagAt(line, p)
C4_TagEntry(line) ==
  LET p == CHOOSE q \in 1..Len(line) :
             C4_TagAt(line, q) /\ \A u \in 1..(q - 1) : ~C4_TagAt(line, u)
  IN  LyricLine(
        (TwoDigits(line, p + 1) * 60 + TwoDigits(line, p + 4)) * Sec
          + TwoDigits(line, p + 7) * 10,
        Trim(Split(SubSeq(line, p + 10, Len(line)), "\r")[1]))
C4_TagExpected(content) ==
  LET tagged == SelectSeq(Split(content, "\n"), C4_HasTag)
  IN  [i \in 1..Len(tagged) |-> C4_TagEntry(tagged[i])]
\* C4 as amended: the parse holds exactly one entry for each line that holds
\* a [mm:ss.xx] tag anywhere, taken from the leftmost such tag, with time
\* mm*60 + ss + xx/100 and as text what follows that tag up to the first
\* line-terminator character of the line (a carriage return), trimmed; every
\* other line is skipped; the result is in ascending time order.
C4_Amended ==
  [][\A r \in pendingReads :
       ReadComplete(r) =>
         LET out == LinesOf(songs'[r.index + 1].lyrics)
         IN  SameEntries(out, C4_TagExpected(r.content)) /\ Ascending(out)]_vars

\* The read of "[00:05.00]late", "x[00:01.00]pre", "[00:02.50] early \r"
\* has completed.
C4_Witness ==
  /\ pendingReads = {}
  /\ toast = "Lyrics uploaded successfully!"
  /\ songs[1].lyrics = Present(<<LyricLine(1000, <<"p","r","e">>), LyricLine(2500, <<"e","a","r","l","y">>),
                                 LyricLine(5000, <<"l","a","t","e">>)>>)

\* The lines kept, and the time a well-formed time part states.
C5_NonBlank(line) == \E i \in 1..Len(line) : line[i] \notin WhiteSpace
C5_Pipes(line) == {i \in 1..Len(line) : line[i] = "|"}
\* digits, or digits.digits
C5_IsSeconds(s) ==
  /\ s # <<>>
  /\ IsDigit(s[1]) /\ IsDigit(s[Len(s)])
  /\ \A i \in 1..Len(s) : IsDigit(s[i]) \/ s[i] = "."
  /\ Cardinality({i \in 1..Len(s) : s[i] = "."}) <= 1
C5_Seconds(s) ==
  LET parts == Split(s, ".")
      frac == IF Len(parts) = 2 THEN parts[2] ELSE <<>>
  IN  DigitsValue(parts[1]) * Sec + DigitsValue(SubSeq(frac \o <<"0", "0", "0">>, 1, 3))
\* minutes:seconds
C5_IsMinSec(s) ==
  /\ Cardinality({i \in 1..Len(s) : s[i] = ":"}) = 1
  /\ LET parts == Split(s, ":")
     IN  /\ parts[1] # <<>>
         /\ \A i \in 1..Len(parts[1]) : IsDigit(parts[1][i])
         /\ C5_IsSeconds(parts[2])
C5_MinSec(s) ==
  LET parts == Split(s, ":")
  IN  DigitsValue(parts[1]) * 60 * Sec + C5_Seconds(parts[2])
C5_EntryOf(line, position, entry) ==
  IF Cardinality(C5_Pipes(line)) = 1
    THEN LET p == CHOOSE i \in C5_Pipes(line) : TRUE
             timePart == Trim(SubSeq(line, 1, p - 1))
         IN  /\ entry.text = Trim(SubSeq(line, p + 1, Len(line)))
             /\ C5_IsMinSec(timePart) => entry.time = C5_MinSec(timePart)
             /\ C5_IsSeconds(timePart) => entry.time = C5_Seconds(timePart)
    ELSE /\ entry.text = Trim(line)
         /\ entry.time = 3 * position * Sec
\* C5: Save parses the buffer into exactly one entry per non-blank line, in
\* buffer order and unsorted: a line that splits on '|' into two parts gives
\* the second part trimmed as text and as time minutes*60 + seconds when the
\* time part holds a colon, the plain number of seconds otherwise; any other
\* line gives the whole trimmed line as text and 3 * (its zero-based position
\* among the non-blank lines) as time.
C5_FreeformParse ==
  [][Save =>
       LET kept == SelectSeq(Split(lyricsText, "\n"), C5_NonBlank)
           out == LinesOf(LyricsAt(songs', currentSongIndex))
       IN  /\ Len(out) = Len(kept)
           /\ \A k \in 1..Len(kept) : C5_EntryOf(kept[k], k - 1, out[k])]_vars

\* The buffer "1:23|hello", "90|hello", "just text" has been saved.
C5_Witness ==
  /\ ~editMode
  /\ toast = "Lyrics updated!"
  /\ lyricsText = <<"1",":","2","3","|","h","e","l","l","o","\n","9","0","|","h","e","l","l","o","\n","j","u","s","t"," ","t","e","x","t">>
  /\ CurrentLyrics = Present(<<LyricLine(83 * Sec, <<"h","e","l","l","o">>), LyricLine(90 * Sec, <<"h","e","l","l","o">>),
                               LyricLine(6 * Sec, <<"j","u","s","t"," ","t","e","x","t">>)>>)

\* Times equal up to rounding to hundredths of a second.
C6_TimeClose(a, b) ==
  \/ IsNaN(a) /\ IsNaN(b)
  \/ ~IsNaN(a) /\ ~IsNaN(b) /\ a - b <= 5 /\ b - a <= 5
C6_SameUpToHundredths(a, b) ==
  /\ Len(a) = Len(b)
  /\ \A i \in 1..Len(a) : a[i].text = b[i].text /\ C6_TimeClose(a[i].time, b[i].time)
\* C6: a lyric sequence shown in Viewing, serialized into the buffer by Edit
\* and saved with the buffer unchanged, comes back with the same length and,
\* position by position, the same text and the same time up to rounding to
\* hundredths.
C6_RoundTrip ==
  [][(/\ Save
      /\ viewBeforeEdit = "Viewing"
      /\ ~editDisturbed
      /\ lyricsText = Serialize(CurrentLyrics))
       => C6_SameUpToHundredths(LinesOf(CurrentLyrics),
                                LinesOf(LyricsAt(songs', currentSongIndex)))]_vars

\* C7 as stated: on cancel from Editing no song record is changed and the
\* view returns to the state (Empty or Viewing) it was in before Editing was
\* entered, whatever happened while it was in Editing.
C7_Original ==
  [][Cancel =>
       /\ songs' = songs
       /\ ViewOf(editMode', LyricsAt(songs', currentSongIndex')) = viewBeforeEdit]_vars

\* C7 as amended: on cancel from Editing no song record is changed and the
\* view goes to Viewing when the song selected at that moment has a lyric
\* sequence and to Empty when it has none; that is the state it was in before
\* Editing was entered when no change of the selected song and no file-read
\* completion happened while it was in Editing.
C7_Amended ==
  [][Cancel =>
       /\ songs' = songs
       /\ ViewOf(editMode', LyricsAt(songs', currentSongIndex'))
            = (IF CurrentLyrics = NoLyrics THEN "Empty" ELSE "Viewing")
       /\ ~editDisturbed =>
            ViewOf(editMode', LyricsAt(songs', currentSongIndex')) = viewBeforeEdit]_vars

\* Cancel has just been pressed on a typed buffer entered by Add Lyrics.
C7_Witness ==
  /\ lastEvent = "Cancel"
  /\ ~editDisturbed
  /\ viewBeforeEdit = "Empty"
  /\ lyricsText \in TypedTexts
  /\ View = "Empty"

\* A file the input rejects; a content without a tagged line.
C8_Rejected(file) == file = NoFile \/ ~EndsWith(file.name, <<".","l","r","c">>)
C8_NoTaggedLine(content) ==
  \A p \in 1..Len(content) : ~C4_TagAt(content, p)
C8_LyricsUnchanged ==
  /\ Len(songs') = Len(songs)
  /\ \A i \in 1..Len(songs) : songs'[i].lyrics = songs[i].lyrics
\* C8 as stated: choosing a file whose name does not end in .lrc, or a .lrc
\* file whose content holds no matching tagged line, leaves the lyrics of
\* every song unchanged.
C8_Original ==
  [][/\ \A file \in LrcFiles \cup {NoFile} :
          (C8_Rejected(file) /\ handleLRCUpload(file)) => C8_LyricsUnchanged
     /\ \A r \in pendingReads :
          (C8_NoTaggedLine(r.content) /\ ReadComplete(r)) => C8_LyricsUnchanged]_vars

\* C8 as amended: choosing a file whose name does not end in .lrc leaves the
\* lyrics of every song unchanged and starts no read (only a notice is
\* produced); a .lrc file whose content holds no matching tagged line
\* replaces, when its read completes, the lyrics of the song that was
\* selected when it was chosen by the empty sequence, and leaves every other
\* song unchanged.
C8_Amended ==
  [][/\ \A file \in LrcFiles \cup {NoFile} :
          (C8_Rejected(file) /\ handleLRCUpload(file)) =>
            /\ songs' = songs
            /\ pendingReads' = pendingReads
            /\ toast' = "Please upload a valid .lrc file"
     /\ \A r \in pendingReads :
          (C8_NoTaggedLine(r.content) /\ ReadComplete(r)) =>
            /\ Len(songs') = Len(songs)
            /\ songs'[r.index + 1].lyrics = Present(<<>>)
            /\ \A i \in 1..Len(songs) : i # r.index + 1 => songs'[i] = songs[i]]_vars

\* The read of a .lrc file without a tagged line has completed on the first
\* sample song.
C8_Witness ==
  /\ toast = "Lyrics uploaded successfully!"
  /\ pendingReads = {}
  /\ songs[1].lyrics = Present(<<>>)
  /\ songs[2] = sampleSongs[2]

\* C9: when the read of an accepted .lrc file completes, in whatever state
\* the lyrics view is, the parsed result replaces the song's lyrics and the
\* view is in Viewing right afterwards.
C9_UploadLeadsToViewing ==
  [][\A r \in pendingReads :
       ReadComplete(r) =>
         /\ songs'[r.index + 1].lyrics = Present(parseLRCFile(r.content))
         /\ ViewOf(editMode', LyricsAt(songs', currentSongIndex')) = "Viewing"]_vars

\* C10: every operation that changes the selected song index leaves the
\* coordinator's currentTime and the transport's currentTime equal to 0.
C10_SongChangeResetsTimes ==
  [][currentSongIndex' # currentSongIndex => (appTime' = 0 /\ playerTime' = 0)]_vars

\* Whether the lyric sequence of a song record, when present, is in
\* non-decreasing time order.
InTimeOrder(song) == song.lyrics = NoLyrics \/ Ascending(LinesOf(song.lyrics))

\* C11 as stated: in every reachable state every song's lyric sequence, when
\* present, has its entries in non-decreasing time order, whichever of seed
\* data, .lrc upload or manual save produced it.
C11_Original == \A i \in 1..Len(songs) : InTimeOrder(songs[i])

\* C11 as amended: the seed sequences are in non-decreasing time order, the
\* completion of a .lrc read leaves the song it updates with a sequence in
\* non-decreasing time order, and every step other than a manual Save leaves
\* in order every sequence that was in order (a manual Save stores the
\* buffer's entries in buffer order, sorted or not).
C11_Amended ==
  /\ \A i \in 1..Len(songs) : InTimeOrder(songs[i])
  /\ [][/\ \A r \in pendingReads :
             \/ /\ songs'[r.index + 1].lyrics # NoLyrics
                /\ InTimeOrder(songs'[r.index + 1])
             \/ ~ReadComplete(r)
        /\ \/ \A i \in 1..Len(songs') :
                (i <= Len(songs) => InTimeOrder(songs[i])) => InTimeOrder(songs'[i])
           \/ Save]_vars

\* The read of song.lrc, whose lines are in descending time order, has
\* completed on the first sample song.
C11_Witness ==
  /\ toast = "Lyrics uploaded successfully!"
  /\ songs[1].lyrics = Present(<<LyricLine(2 * Sec, <<"e","a","r","l","y">>), LyricLine(5 * Sec, <<"l","a","t","e","|","r">>)>>)
  /\ songs[2] = sampleSongs[2]

\* The fields of a song record other than its lyrics.
OtherFields(song) == <<song.id, song.title, song.artist, song.src>>

\* C12: Save in Editing replaces, as one whole sequence, the lyrics of
\* exactly the song selected when Save is pressed, also when the selection
\* changed after the buffer was populated, and leaves every other song, every
\* other field of that song, and the length and order of the collection
\* unchanged.
C12_SaveTargetsSelectedSong ==
  [][Save =>
       /\ currentSongIndex' = currentSongIndex
       /\ Len(songs') = Len(songs)
       /\ \A i \in 1..Len(songs) :
            /\ OtherFields(songs'[i]) = OtherFields(songs[i])
            /\ i # currentSongIndex + 1 => songs'[i].lyrics = songs[i].lyrics
       /\ LET kept == SelectSeq(Split(lyricsText, "\n"), C5_NonBlank)
              new == songs'[currentSongIndex + 1].lyrics
          IN  /\ new # NoLyrics
              /\ Len(LinesOf(new)) = Len(kept)
              /\ \A k \in 1..Len(kept) : C5_EntryOf(kept[k], k - 1, LinesOf(new)[k])]_vars

\* Edit was pressed on the first sample song, the second was selected, and
\* Save was pressed: the second song holds the first one's lines, and the
\* first is as it was.
C12_Witness ==
  /\ currentSongIndex = 1
  /\ ~editMode
  /\ toast = "Lyrics updated!"
  /\ lyricsText = Serialize(sampleSongs[1].lyrics)
  /\ songs[1] = sampleSongs[1]
  /\ songs[2] = [sampleSongs[2] EXCEPT !.lyrics = sampleSongs[1].lyrics]

\* C13: when the read of a .lrc file completes, its parsed result is applied,
\* also when the selected song changed since the file was chosen, and it is
\* applied to the song selected at the completion, not to the song that was
\* selected when the file was chosen.
C13_ReadAppliesToSelectedSong ==
  [][\A r \in pendingReads :
       ReadComplete(r) =>
         /\ Len(songs') = Len(songs)
         /\ songs'[currentSongIndex + 1].lyrics = Present(parseLRCFile(r.content))
         /\ \A i \in 1..Len(songs) :
              i # currentSongIndex + 1 => songs'[i] = songs[i]]_vars

\* C14: whenever the lyrics view enters Editing, the edit buffer holds the
\* serialization of the selected song's lyrics when entered from Viewing by
\* Edit, and nothing when entered from Empty by Add Lyrics; text left over
\* from an earlier edit session is never present.
C14_BufferOnEntry ==
  [][/\ Edit => lyricsText' = Serialize(CurrentLyrics)
     /\ AddLyrics => lyricsText' = <<>>]_vars

\* C15: in every state reachable by previous, next, playback-ended, library
\* selection and audio-file upload events, handlers that captured an older
\* song count included, 0 <= currentSongIndex < number of songs, and the
\* number of songs never decreases.
C15_IndexInRange ==
  /\ 0 <= currentSongIndex /\ currentSongIndex < Len(songs)
  /\ [][/\ 0 <= currentSongIndex' /\ currentSongIndex' < Len(songs')
        /\ Len(songs') >= Len(songs)]_vars

\* A song was uploaded after the 'ended' listener was registered: the
\* listener of the playing transport still holds the count of two songs while
\* the collection holds three and the second is selected.
C15_Witness ==
  /\ Len(songs) = 3
  /\ endedSongCount = 2
  /\ currentSongIndex = 1
  /\ playerIsPlaying
====
